---- MODULE Spec2Model ----
(***************************************************************************)
(* A model of guetzli.cc: the format dispatcher of main, the three        *)
(* format processors (PNG, TIFF, JPEG), the memory admission check they   *)
(* share, and the alpha blending helpers.                                  *)
(*                                                                         *)
(* libpng, libtiff, guetzli::ReadJpeg and guetzli::Process are outside    *)
(* the file: what they report (failure, or dimensions and a channel       *)
(* count) is drawn nondeterministically from small sets.                   *)
(***************************************************************************)
EXTENDS Integers, Sequences, FiniteSets, TLC

(***************************************************************************)
(* Program constants.                                                      *)
(***************************************************************************)
kBytesPerPixel == 110

kLowestMemusageMB == 100

kDefaultMemlimitMB == 6000

\* 1 << 20, the divisor of the memory estimate.
OneMB == 1048576

NotSupported == "NotSupported"

ProcessFailed == "ProcessFailed"

Sucess == "Sucess"

kPNGMagicBytes == <<137, 80, 78, 71, 13, 10, 26, 10>>

\* TIFF_BIGENDIAN = 0x4d4d and TIFF_LITTLEENDIAN = 0x4949 as the two bytes
\* of a ushort (both bytes are equal, so the host byte order is immaterial).
kTIFFMagickBE == <<77, 77>>

kTIFFMagickLE == <<73, 73>>

(***************************************************************************)
(* Bounds of the model.                                                    *)
(***************************************************************************)
\* Number of bytes that may follow a signature in an input buffer.
MaxBody == 2

\* Largest raster whose conversion loops are followed pixel by pixel.
MaxTiffWidth == 2

MaxTiffHeight == 2

\* The in-memory TIFF file: its length, and the largest seek offset and
\* read length libtiff asks for.
MaxInputSize == 2

MaxSeek == 3

MaxRead == 2

(***************************************************************************)
(* Exact integer arithmetic.  TLC's integers are 32 bits wide, while the   *)
(* program multiplies 32-bit dimensions in int, size_t and double, so      *)
(* wide values are kept as little-endian base-256 digit sequences with no  *)
(* leading zero digit (<<>> is zero).                                      *)
(***************************************************************************)
RECURSIVE Digits(_)
Digits(n) == IF n = 0 THEN <<>> ELSE <<n % 256>> \o Digits(n \div 256)

RECURSIVE Strip(_)
Strip(a) ==
    IF a = <<>> THEN <<>>
    ELSE IF a[Len(a)] = 0 THEN Strip(SubSeq(a, 1, Len(a) - 1))
    ELSE a

RECURSIVE AddDigits(_, _, _)
AddDigits(a, b, carry) ==
    IF a = <<>> /\ b = <<>>
    THEN (IF carry = 0 THEN <<>> ELSE <<carry>>)
    ELSE LET x == IF a = <<>> THEN 0 ELSE a[1]
             y == IF b = <<>> THEN 0 ELSE b[1]
             s == x + y + carry
         IN  <<s % 256>> \o AddDigits(IF a = <<>> THEN <<>> ELSE Tail(a),
                                      IF b = <<>> THEN <<>> ELSE Tail(b),
                                      s \div 256)

RECURSIVE MulDigit(_, _, _)
MulDigit(a, d, carry) ==
    IF a = <<>>
    THEN (IF carry = 0 THEN <<>> ELSE <<carry>>)
    ELSE LET s == a[1] * d + carry
         IN  <<s % 256>> \o MulDigit(Tail(a), d, s \div 256)

RECURSIVE MulDigits(_, _)
MulDigits(a, b) ==
    IF a = <<>> \/ b = <<>> THEN <<>>
    ELSE Strip(AddDigits(MulDigit(a, b[1], 0), <<0>> \o MulDigits(a, Tail(b)), 0))

\* -1, 0 or 1 as a < b, a = b, a > b.
RECURSIVE CmpDigits(_, _)
CmpDigits(a, b) ==
    IF Len(a) # Len(b) THEN (IF Len(a) < Len(b) THEN -1 ELSE 1)
    ELSE IF a = <<>> THEN 0
    ELSE IF a[Len(a)] # b[Len(b)] THEN (IF a[Len(a)] < b[Len(b)] THEN -1 ELSE 1)
    ELSE CmpDigits(SubSeq(a, 1, Len(a) - 1), SubSeq(b, 1, Len(b) - 1))

\* A signed wide value.
Wide(n) == [neg |-> n < 0, mag |-> Digits(IF n < 0 THEN -n ELSE n)]

WideMul(a, b) ==
    LET m == MulDigits(a.mag, b.mag)
    IN  [neg |-> (m # <<>>) /\ (a.neg # b.neg), mag |-> m]

WideGreater(a, b) ==
    IF a.neg /\ b.neg THEN CmpDigits(a.mag, b.mag) = -1
    ELSE IF a.neg THEN FALSE
    ELSE IF b.neg THEN TRUE
    ELSE CmpDigits(a.mag, b.mag) = 1

\* Whether a wide value is within int (32-bit two's complement).
FitsInt(a) ==
    IF a.neg THEN CmpDigits(a.mag, <<0, 0, 0, 128>>) <= 0
    ELSE CmpDigits(a.mag, <<0, 0, 0, 128>>) < 0

\* The low 32 bits of a non-negative wide value read as a two's complement
\* int: what a wrapping 32-bit multiplication leaves.
WrapInt(a) ==
    LET d(k) == IF k <= Len(a.mag) THEN a.mag[k] ELSE 0
        low  == d(1) + 256 * d(2) + 65536 * d(3) + 16777216 * (d(4) % 128)
    IN  IF d(4) >= 128 THEN (low - 2147483647) - 1 ELSE low

(***************************************************************************)
(* Alpha blending (lines 67-76).  The helpers return uint8_t, so the int   *)
(* expression is reduced modulo 256 on return.                             *)
(***************************************************************************)
BlendOnBlackRoundingUp(val, alpha) == ((val * alpha + 254) \div 255) % 256

BlendOnBlack(val, alpha) == ((val * alpha + 128) \div 255) % 256

BlendOnWhite(val, alpha) ==
    IF alpha < 1
    THEN (255 - ((val * alpha + 128) \div 255)) % 256
    ELSE val

Blend(onBlack, val, alpha) ==
    IF onBlack THEN BlendOnBlack(val, alpha) ELSE BlendOnWhite(val, alpha)

(***************************************************************************)
(* The memory admission check.  The program evaluates                      *)
(*   pixels * kBytesPerPixel / (1 << 20) > memlimit_mb                     *)
(* in double.  Division by 2^20 is exact, memlimit_mb * 2^20 is below 2^52 *)
(* and so representable, and rounding is monotone, so the double           *)
(* comparison agrees with the exact comparison                             *)
(*   xsize * ysize * kBytesPerPixel > memlimit_mb * 2^20                   *)
(* which is what is evaluated here, in wide arithmetic.                    *)
(***************************************************************************)
EstimateExceedsOrEquals(xsize, ysize, limit) ==
    LET pixels == WideMul(Wide(xsize), Wide(ysize))
    IN  ~WideGreater(WideMul(Wide(limit), Wide(OneMB)),
                     WideMul(pixels, Wide(kBytesPerPixel)))

EstimateExceeds(xsize, ysize, limit) ==
    LET pixels == WideMul(Wide(xsize), Wide(ysize))
    IN  WideGreater(WideMul(pixels, Wide(kBytesPerPixel)),
                    WideMul(Wide(limit), Wide(OneMB)))

PngMemlimitFailsWithoutSentinel(xsize, ysize, limit) ==
    EstimateExceeds(xsize, ysize, limit) \/ limit < kLowestMemusageMB

\* PngProcessor::Process, lines 201-207: TRUE when the job is failed.
PngMemlimitFails(xsize, ysize, limit) ==
    limit # -1 /\ (EstimateExceeds(xsize, ysize, limit) \/ limit < kLowestMemusageMB)

\* TiffProcessor::Process, lines 396-402.
TiffMemlimitFails(xsize, ysize, limit) ==
    limit # -1 /\ (EstimateExceeds(xsize, ysize, limit) \/ limit < kLowestMemusageMB)

JpegMemlimitFailsWithoutFloor(width, height, limit) ==
    limit # -1 /\ EstimateExceeds(width, height, limit)

\* JpegProcessor::Process, lines 437-443.
JpegMemlimitFails(width, height, limit) ==
    limit # -1 /\ (EstimateExceeds(width, height, limit) \/ limit < kLowestMemusageMB)

(***************************************************************************)
(* rgb->resize(3 * xsize * ysize): the product is computed in int.         *)
(* When it (or 3 * xsize) leaves the int range the behaviour is undefined: *)
(* a build may leave the wrapped low 32 bits, may have widened the         *)
(* multiplication to size_t, or the process may die.  A negative int       *)
(* converts to a size_t beyond the vector's max_size, resize throws, and   *)
(* the uncaught exception ends the process in TerminateHandler.  After a   *)
(* wrapped resize the pixel loops write beyond the vector, which may       *)
(* also end the process.                                                   *)
(***************************************************************************)
ResizeOutcomes(xsize, ysize) ==
    LET step  == WideMul(Wide(3), Wide(xsize))
        exact == WideMul(step, Wide(ysize))
    IN  IF FitsInt(step) /\ FitsInt(exact)
        THEN IF exact.neg
             THEN {[aborted |-> TRUE, size |-> <<>>]}
             ELSE {[aborted |-> FALSE, size |-> exact.mag]}
        ELSE {[aborted |-> TRUE, size |-> <<>>]}
             \cup (IF exact.neg THEN {} ELSE {[aborted |-> FALSE, size |-> exact.mag]})
             \cup (IF exact.neg \/ WrapInt(exact) < 0 THEN {}
                   ELSE {[aborted |-> FALSE, size |-> Digits(WrapInt(exact))]})

(***************************************************************************)
(* What the outside libraries may report.                                  *)
(***************************************************************************)
\* Image dimensions libpng may report (png_uint_32, at least 1).
PngDims == {1, 2, 1024, 1025, 10000, 65536, 65537}

\* png_get_channels: 1..4 after the transforms; 0 stands for any other value.
PngChannels == {0, 1, 2, 3, 4}

\* The TIFF tags read into uint32 variables initialised to 0.
TiffDims == {0, 1, 2, 1024, 1025, 10000, 65536, 65537}

TiffComponents == {0, 1, 3, 4}

\* Dimensions of a parsed JPEG header (16-bit fields).
JpegDims == {1, 1024, 1025, 10000, 65535}

\* libpng on a buffer that starts with the PNG signature.  The read
\* callback (lines 102-109) raises png_error at the end of the data, so a
\* buffer with nothing after the signature cannot be read; the bytes after
\* it stand for the chunks, whose content is not followed.
PngLibOutcomes(data) ==
    {[kind |-> k, w |-> 0, h |-> 0, ch |-> 0] :
        k \in {"no_read_struct", "no_info_struct", "longjmp"}}
    \cup (IF Len(data) > 8
          THEN {[kind |-> "read", w |-> w, h |-> h, ch |-> ch] :
                  w \in PngDims, h \in PngDims, ch \in PngChannels}
          ELSE {})

\* libtiff on a buffer that starts with a TIFF byte-order mark: the open
\* fails, or the tags are read and TIFFReadRGBAImageOriented fails or
\* succeeds.  tiff_Read returns nothing at the end of the data, so a buffer
\* with nothing after the mark cannot be opened.
TiffLibOutcomes(data) ==
    {[kind |-> "open_failed", w |-> 0, h |-> 0, ch |-> 0]}
    \cup (IF Len(data) > 2
          THEN {[kind |-> k, w |-> w, h |-> h, ch |-> ch] :
                  k \in {"read_failed", "read"},
                  w \in TiffDims, h \in TiffDims, ch \in TiffComponents}
          ELSE {})

\* guetzli::ReadJpeg(data, JPEG_READ_HEADER, &jpg_header): a buffer that
\* does not start with the SOI marker FF D8 is no JPEG; one that does may
\* still fail to parse.
ReadJpeg(data) ==
    {[ok |-> FALSE, width |-> 0, height |-> 0]}
    \cup (IF Len(data) > 2 /\ data[1] = 255 /\ data[2] = 216
          THEN {[ok |-> TRUE, width |-> w, height |-> h] : w \in JpegDims, h \in JpegDims}
          ELSE {})

\* guetzli::Process: success or failure of the external encoder.
EncoderOutcomes == {TRUE, FALSE}

(***************************************************************************)
(* State.                                                                  *)
(***************************************************************************)
VARIABLES
    in_data,        \* main: the input file's bytes (ReadFileOrDie)
    memlimit_mb,    \* the global set by --memlimit / --nomemlimit
    blendOnBlack,   \* the global cleared by --blend-on-white
    pc,             \* main: "loop", "after_loop", "done", "aborted"
    i,              \* main: the loop index over processors[]
    processed,      \* main: the local of that name
    results,        \* the ProcessResult each Process call returned, in order
    trace,          \* the calls made so far, in program order: <<format, step, outcome>>
    err,            \* the lines printed to stderr
    image,          \* xsize, ysize and rgb.size() of the running Process call
    out_data,       \* main: filled by guetzli::Process
    written,        \* WriteFileOrDie wrote the output file
    exit_code,      \* the process's exit status, -1 while running
    val, alpha, blended,    \* one call of Blend and what it returned
    tiff,                   \* ReadTIFF's conversion loops (see TiffInit)
    resources,      \* acquisitions and releases of the running ReadPNG / ReadTIFF
    input           \* ReadTIFF's tiff_io and the last tiff_Read (see AdapterInit)

vars == <<in_data, memlimit_mb, blendOnBlack, pc, i, processed, results, trace,
          err, image, out_data, written, exit_code, val, alpha, blended, tiff,
          resources, input>>

jobVars == <<pc, i, processed, results, trace, err, image, out_data, written, exit_code,
             resources>>

(***************************************************************************)
(* The result of one Process call.                                         *)
(***************************************************************************)
NoImage == [decoded |-> FALSE, xsize |-> 0, ysize |-> 0, size |-> <<>>]

Rgb(xsize, ysize, size) ==
    [decoded |-> TRUE, xsize |-> xsize, ysize |-> ysize, size |-> size]

Return(result, calls, lines, img, out) ==
    [aborted |-> FALSE, result |-> result, trace |-> calls, err |-> lines,
     image |-> img, out |-> out, res |-> <<>>]

\* The process ends inside the call (std::terminate or a fault).
Abort(calls, img) ==
    [aborted |-> TRUE, result |-> "", trace |-> calls, err |-> <<>>,
     image |-> img, out |-> "", res |-> <<>>]

\* The outcomes of a Process call whose decode left the resource log res.
WithResources(res, outcomes) == {[o EXCEPT !.res = res] : o \in outcomes}

\* memcmp(a, b, n) == 0, for buffers of at least n bytes.
MemEqual(a, b, n) == \A k \in 1..n : a[k] = b[k]

(***************************************************************************)
(* PngProcessor                                                            *)
(***************************************************************************)
\* png_destroy_read_struct(&png_ptr, &info_ptr, nullptr), lines 97, 181, 184.
PngDestroyBoth == << <<"release", "info_ptr">>, <<"release", "png_ptr">> >>

PngResourcesLeakingOnUnsupportedChannels(lib, aborted) ==
    CASE lib.kind = "no_read_struct" -> <<>>
      [] lib.kind = "no_info_struct" ->
            << <<"acquire", "png_ptr">>, <<"release", "png_ptr">> >>
      [] OTHER ->
            << <<"acquire", "png_ptr">>, <<"acquire", "info_ptr">> >>
            \o (IF aborted \/ (lib.kind = "read" /\ lib.ch \notin 1..4)
                THEN <<>> ELSE PngDestroyBoth)

\* ReadPNG, lines 83-99 and 180-185: the libpng structs created and
\* destroyed on each path, in order.  Nothing is destroyed when the process
\* ends inside the function.
PngResources(lib, aborted) ==
    CASE lib.kind = "no_read_struct" -> <<>>                          \* line 86
      [] lib.kind = "no_info_struct" ->                               \* lines 91-92
            << <<"acquire", "png_ptr">>, <<"release", "png_ptr">> >>
      [] OTHER ->                                       \* lines 97, 181, 184
            << <<"acquire", "png_ptr">>, <<"acquire", "info_ptr">> >>
            \o (IF aborted THEN <<>> ELSE PngDestroyBoth)

\* ReadPNG, lines 81-186, on what libpng reports.  The rgb buffer is
\* followed by its size; the pixel values do not influence the control flow.
ReadPNG(lib) ==
    IF lib.kind # "read"
    THEN {[ok |-> FALSE, aborted |-> FALSE, image |-> NoImage,
           res |-> PngResources(lib, FALSE)]}
    ELSE LET xsize == lib.w
             ysize == lib.h
         IN  {[ok |-> (~r.aborted) /\ lib.ch \in 1..4,
               aborted |-> r.aborted,
               image |-> Rgb(xsize, ysize, r.size),
               res |-> PngResources(lib, r.aborted)] : r \in ResizeOutcomes(xsize, ysize)}

PngSignatureMatchesSevenBytes(data) ==
    Len(data) >= 8 /\ MemEqual(data, kPNGMagicBytes, Len(kPNGMagicBytes) - 1)

PngSignatureMatches(data) ==
    Len(data) >= 8 /\ MemEqual(data, kPNGMagicBytes, Len(kPNGMagicBytes))

\* PngProcessor::Process, lines 188-226.
PngProcess(data, limit) ==
    LET enter == <<"PNG", "Process", "">>
    IN  IF ~PngSignatureMatches(data)
        THEN {Return(NotSupported, <<enter>>, <<>>, NoImage, "")}
        ELSE UNION {
          LET read == <<enter, <<"PNG", "decode", IF r.ok THEN "ok" ELSE "failed">> >>
          IN  WithResources(r.res,
              IF r.aborted THEN {Abort(read, r.image)}
              ELSE IF ~r.ok
              THEN {Return(ProcessFailed, read,
                           <<"Error reading PNG data from input file">>, r.image, "")}
              ELSE IF PngMemlimitFails(r.image.xsize, r.image.ysize, limit)
              THEN {Return(ProcessFailed, Append(read, <<"PNG", "gate", "rejected">>),
                           <<"Memory limit would be exceeded. Failing.">>, r.image, "")}
              ELSE {IF enc
                    THEN Return(Sucess,
                                read \o << <<"PNG", "gate", "admitted">>,
                                           <<"PNG", "encode", "ok">> >>,
                                <<>>, r.image, "jpeg")
                    ELSE Return(ProcessFailed,
                                read \o << <<"PNG", "gate", "admitted">>,
                                           <<"PNG", "encode", "failed">> >>,
                                <<"Guetzli processing failed">>, r.image, "")
                    : enc \in EncoderOutcomes})
          : r \in UNION {ReadPNG(lib) : lib \in PngLibOutcomes(data)} }

(***************************************************************************)
(* TiffProcessor                                                           *)
(***************************************************************************)
\* ReadTIFF, lines 315-343 and 376-378: the TIFF handle and the raster
\* acquired and released on each path, in order.
TiffResources(lib, aborted) ==
    IF lib.kind = "open_failed" THEN <<>>                             \* line 322
    ELSE << <<"acquire", "tif">>, <<"acquire", "pixels">> >>          \* 315, 333
         \o (IF aborted THEN <<>>
             ELSE << <<"release", "pixels">>, <<"release", "tif">> >>) \* 340-341, 376-377

\* ReadTIFF, lines 307-379, on what libtiff reports; the rgb buffer is
\* followed by its size here and pixel by pixel in SpecTiff.
ReadTIFF(lib) ==
    IF lib.kind # "read"
    THEN {[ok |-> FALSE, aborted |-> FALSE, image |-> NoImage,
           res |-> TiffResources(lib, FALSE)]}
    ELSE LET xsize == lib.w
             ysize == lib.h
         IN  {[ok |-> ~r.aborted,
               aborted |-> r.aborted,
               image |-> Rgb(xsize, ysize, r.size),
               res |-> TiffResources(lib, r.aborted)] : r \in ResizeOutcomes(xsize, ysize)}

TiffSignatureMatches(data) ==
    Len(data) >= 2 /\ (MemEqual(data, kTIFFMagickBE, Len(kTIFFMagickBE))
                       \/ MemEqual(data, kTIFFMagickLE, Len(kTIFFMagickLE)))

\* TiffProcessor::Process, lines 381-423.
TiffProcess(data, limit) ==
    LET enter == <<"TIFF", "Process", "">>
    IN  IF ~TiffSignatureMatches(data)
        THEN {Return(NotSupported, <<enter>>, <<>>, NoImage, "")}
        ELSE UNION {
          LET read == <<enter, <<"TIFF", "decode", IF r.ok THEN "ok" ELSE "failed">> >>
          IN  WithResources(r.res,
              IF r.aborted THEN {Abort(read, r.image)}
              ELSE IF ~r.ok
              THEN {Return(ProcessFailed, read,
                           <<"Error reading TIFF data from input file">>, r.image, "")}
              ELSE IF TiffMemlimitFails(r.image.xsize, r.image.ysize, limit)
              THEN {Return(ProcessFailed, Append(read, <<"TIFF", "gate", "rejected">>),
                           <<"Memory limit would be exceeded. Failing.">>, r.image, "")}
              ELSE {IF enc
                    THEN Return(Sucess,
                                read \o << <<"TIFF", "gate", "admitted">>,
                                           <<"TIFF", "encode", "ok">> >>,
                                <<>>, r.image, "jpeg")
                    ELSE Return(ProcessFailed,
                                read \o << <<"TIFF", "gate", "admitted">>,
                                           <<"TIFF", "encode", "failed">> >>,
                                <<"Guetzli processing failed">>, r.image, "")
                    : enc \in EncoderOutcomes})
          : r \in UNION {ReadTIFF(lib) : lib \in TiffLibOutcomes(data)} }

(***************************************************************************)
(* JpegProcessor                                                           *)
(***************************************************************************)
JpegHeaderFailureAsProcessFailed == ProcessFailed

\* JpegProcessor::Process, line 435: what a failed header parse returns.
JpegHeaderFailureResult == NotSupported

\* JpegProcessor::Process, lines 429-461.  No rgb buffer is made: the
\* encoder is given in_data itself.
JpegProcess(data, limit) ==
    LET enter == <<"JPEG", "Process", "">>
    IN  UNION {
          LET read == <<enter, <<"JPEG", "decode", IF h.ok THEN "ok" ELSE "failed">> >>
              hdr  == [decoded |-> FALSE, xsize |-> h.width, ysize |-> h.height, size |-> <<>>]
          IN  IF ~h.ok
              THEN {Return(JpegHeaderFailureResult, read,
                           <<"Error reading JPG data from input file">>, NoImage, "")}
              ELSE IF JpegMemlimitFails(h.width, h.height, limit)
              THEN {Return(ProcessFailed, Append(read, <<"JPEG", "gate", "rejected">>),
                           <<"Memory limit would be exceeded. Failing.">>, hdr, "")}
              ELSE {IF enc
                    THEN Return(Sucess,
                                read \o << <<"JPEG", "gate", "admitted">>,
                                           <<"JPEG", "encode", "ok">> >>,
                                <<>>, hdr, "jpeg")
                    ELSE Return(ProcessFailed,
                                read \o << <<"JPEG", "gate", "admitted">>,
                                           <<"JPEG", "encode", "failed">> >>,
                                <<"Guetzli processing failed">>, hdr, "")
                    : enc \in EncoderOutcomes}
          : h \in ReadJpeg(data) }

(***************************************************************************)
(* main                                                                    *)
(***************************************************************************)
BodyBytes == {0, 255}

RECURSIVE BodiesOfLen(_)
BodiesOfLen(n) ==
    IF n = 0 THEN {<<>>}
    ELSE {Append(b, v) : b \in BodiesOfLen(n - 1), v \in BodyBytes}

Bodies == UNION {BodiesOfLen(n) : n \in 0..MaxBody}

ZeroBuffer(n) == [k \in 1..n |-> 0]

\* The input files considered: the PNG signature cut short, damaged in one
\* byte, or followed by a body; both TIFF byte-order marks; the JPEG SOI
\* marker; and buffers that match nothing.
Inputs ==
    {SubSeq(kPNGMagicBytes, 1, k) : k \in 0..7}
    \cup {[kPNGMagicBytes EXCEPT ![k] = v] : k \in 1..8, v \in BodyBytes}
    \cup {kPNGMagicBytes \o b : b \in Bodies}
    \cup {kTIFFMagickBE \o b : b \in Bodies}
    \cup {kTIFFMagickLE \o b : b \in Bodies}
    \cup {<<73>>, <<77>>, <<73, 77>>, <<77, 73>>, <<255>>, <<255, 0>>}
    \cup {<<255, 216>> \o b : b \in Bodies}
    \cup {ZeroBuffer(16)}

\* atoi of --memlimit's argument, -1 from --nomemlimit, or the default.
MemLimits == {-2, -1, 0, 99, 100, 110, kDefaultMemlimitMB}

LoopBreaksOnSucessOnly(result) == result = Sucess

\* main, line 681: the loop is left on any result but NotSupported.
LoopBreaks(result) == result # NotSupported

\* main, line 683.
ProcessedFlag(result) == result = Sucess

\* main, lines 678-686: one iteration of the loop, given what the Process
\* call of processors[i] did.
LoopBody(o) ==
    /\ trace' = trace \o o.trace
    /\ err' = err \o o.err
    /\ image' = o.image
    /\ resources' = o.res
    /\ IF o.aborted
       THEN /\ pc' = "aborted"
            /\ exit_code' = 1
            /\ UNCHANGED <<i, processed, results, out_data>>
       ELSE /\ results' = Append(results, o.result)
            /\ out_data' = o.out
            /\ exit_code' = exit_code
            /\ IF LoopBreaks(o.result)
               THEN /\ processed' = ProcessedFlag(o.result)
                    /\ i' = i
                    /\ pc' = "after_loop"
               ELSE /\ processed' = processed
                    /\ i' = i + 1
                    /\ pc' = IF i + 1 # 3 THEN "loop" ELSE "after_loop"
    /\ UNCHANGED <<in_data, memlimit_mb, blendOnBlack, written, val, alpha, blended, tiff,
                   input>>

TryPng ==
    /\ pc = "loop" /\ i = 0
    /\ \E o \in PngProcess(in_data, memlimit_mb) : LoopBody(o)

TryTiff ==
    /\ pc = "loop" /\ i = 1
    /\ \E o \in TiffProcess(in_data, memlimit_mb) : LoopBody(o)

TryJpeg ==
    /\ pc = "loop" /\ i = 2
    /\ \E o \in JpegProcess(in_data, memlimit_mb) : LoopBody(o)

\* main, lines 688-698.  WriteFileOrDie exits with 1 when the file cannot
\* be written.
Finish ==
    /\ pc = "after_loop"
    /\ pc' = "done"
    /\ IF processed
       THEN \E io_ok \in BOOLEAN :
              /\ written' = io_ok
              /\ exit_code' = IF io_ok THEN 0 ELSE 1
              /\ err' = IF io_ok THEN err ELSE Append(err, "fwrite")
       ELSE /\ written' = written
            /\ exit_code' = 2
            /\ err' = Append(err, "Unknown file format")
    /\ UNCHANGED <<in_data, memlimit_mb, blendOnBlack, i, processed, results, trace,
                   image, out_data, val, alpha, blended, tiff, resources, input>>

\* No tiff_io is open.
NoInput == [size |-> 0, fp |-> 0, last |-> "none", from |-> 0, asked |-> 0,
            returned |-> 0, copied |-> {}, faulted |-> FALSE]

NoTiff == [width |-> 0, height |-> 0, components |-> 0, raster |-> <<>>,
           y |-> 0, x |-> 0, rgb |-> <<>>, reads |-> {}, stray |-> FALSE]

Init ==
    /\ in_data \in Inputs
    /\ memlimit_mb \in MemLimits
    /\ blendOnBlack \in BOOLEAN
    /\ pc = "loop"
    /\ i = 0
    /\ processed = FALSE
    /\ results = <<>>
    /\ trace = <<>>
    /\ err = <<>>
    /\ image = NoImage
    /\ out_data = ""
    /\ written = FALSE
    /\ exit_code = -1
    /\ val = 0 /\ alpha = 0 /\ blended = -1
    /\ tiff = NoTiff
    /\ resources = <<>>
    /\ input = NoInput

Next == TryPng \/ TryTiff \/ TryJpeg \/ Finish

Spec == Init /\ [][Next]_vars

(***************************************************************************)
(* Blend as a function of its own: every sample and alpha, both modes.     *)
(***************************************************************************)
Idle ==
    /\ in_data = <<>>
    /\ memlimit_mb = kDefaultMemlimitMB
    /\ pc = "done"
    /\ i = 0
    /\ processed = FALSE
    /\ results = <<>>
    /\ trace = <<>>
    /\ err = <<>>
    /\ image = NoImage
    /\ out_data = ""
    /\ written = FALSE
    /\ exit_code = -1
    /\ resources = <<>>

BlendInit ==
    /\ Idle
    /\ blendOnBlack \in BOOLEAN
    /\ val \in 0..255
    /\ alpha \in 0..255
    /\ blended = -1
    /\ tiff = NoTiff
    /\ input = NoInput

BlendCall ==
    /\ blended = -1
    /\ blended' = Blend(blendOnBlack, val, alpha)
    /\ UNCHANGED <<in_data, memlimit_mb, blendOnBlack, jobVars, val, alpha, tiff, input>>

BlendNext == BlendCall

SpecBlend == BlendInit /\ [][BlendNext]_vars

(***************************************************************************)
(* ReadTIFF's conversion loops, lines 345-374, on the raster that          *)
(* TIFFReadRGBAImageOriented filled: width * height uint32 values, each    *)
(* holding R, G, B, A in its bytes 0..3 (little-endian host).  Offsets     *)
(* into raster and rgb are 0-based as in the source.                       *)
(***************************************************************************)
SamplePixels == {<<200, 100, 50, 0>>, <<200, 100, 50, 255>>, <<10, 20, 30, 128>>}

\* What a read beyond the raster's allocation may find.
StrayBytes == {0, 77, 255}

RECURSIVE RastersOf(_)
RastersOf(npixels) ==
    IF npixels = 0 THEN {<<>>}
    ELSE {r \o p : r \in RastersOf(npixels - 1), p \in SamplePixels}

TiffInit ==
    /\ Idle
    /\ blendOnBlack \in BOOLEAN
    /\ val = 0 /\ alpha = 0 /\ blended = -1
    /\ input = NoInput
    /\ \E w \in 1..MaxTiffWidth, h \in 1..MaxTiffHeight, c \in TiffComponents :
         \E r \in RastersOf(w * h) :
            tiff = [width |-> w, height |-> h, components |-> c, raster |-> r,
                    y |-> 0, x |-> 0,
                    rgb |-> [k \in 1..(3 * w * h) |-> 0],   \* rgb->resize(...)
                    reads |-> {}, stray |-> FALSE]

\* The raster offset of the alpha byte of a pixel that starts at offset p.
AlphaOffset(p) == p + 4

\* One iteration of the inner loop (lines 354-359 or 366-372).
TiffPixel ==
    /\ tiff.y < tiff.height
    /\ LET p     == 4 * (tiff.y * tiff.width + tiff.x)      \* &row_in[x]
           o     == 3 * tiff.y * tiff.width + 3 * tiff.x    \* &row_out[3 * x]
           byte(k) == tiff.raster[k + 1]
           nx    == IF tiff.x + 1 < tiff.width THEN tiff.x + 1 ELSE 0
           ny    == IF tiff.x + 1 < tiff.width THEN tiff.y ELSE tiff.y + 1
       IN  IF tiff.components # 4
           THEN tiff' = [tiff EXCEPT
                    !.rgb = [tiff.rgb EXCEPT ![o + 1] = byte(p),
                                             ![o + 2] = byte(p + 1),
                                             ![o + 3] = byte(p + 2)],
                    !.reads = {p, p + 1, p + 2},
                    !.x = nx, !.y = ny]
           ELSE \E a \in (IF AlphaOffset(p) < Len(tiff.raster)
                          THEN {byte(AlphaOffset(p))} ELSE StrayBytes) :
                  tiff' = [tiff EXCEPT
                    !.rgb = [tiff.rgb EXCEPT ![o + 1] = Blend(blendOnBlack, byte(p), a),
                                             ![o + 2] = Blend(blendOnBlack, byte(p + 1), a),
                                             ![o + 3] = Blend(blendOnBlack, byte(p + 2), a)],
                    !.reads = {p, p + 1, p + 2, AlphaOffset(p)},
                    !.stray = tiff.stray \/ AlphaOffset(p) >= Len(tiff.raster),
                    !.x = nx, !.y = ny]
    /\ UNCHANGED <<in_data, memlimit_mb, blendOnBlack, jobVars, val, alpha, blended, input>>

TiffNext == TiffPixel

SpecTiff == TiffInit /\ [][TiffNext]_vars

(***************************************************************************)
(* The in-memory file that ReadTIFF hands to TIFFClientOpen: tiff_io and   *)
(* the callbacks tiff_Read and tiff_Seek, lines 232-276.  fp is kept as    *)
(* the offset fp - data.  libtiff chooses the calls; offsets (toff_t) and  *)
(* read lengths are non-negative.                                          *)
(***************************************************************************)
AdapterInit ==
    /\ Idle
    /\ blendOnBlack = TRUE
    /\ val = 0 /\ alpha = 0 /\ blended = -1
    /\ tiff = NoTiff
    /\ \E n \in 0..MaxInputSize :
         input = [NoInput EXCEPT !.size = n]       \* line 310: fp = data

\* tiff_Seek, lines 259-276: the new fp - data.
SeekTarget(io, off, whence) ==
    CASE whence = "SEEK_SET" -> off
      [] whence = "SEEK_CUR" -> io.fp + off
      [] whence = "SEEK_END" -> io.size - off

tiff_Seek ==
    /\ ~input.faulted
    /\ \E off \in 0..MaxSeek, whence \in {"SEEK_SET", "SEEK_CUR", "SEEK_END"} :
         /\ SeekTarget(input, off, whence) <= MaxInputSize + MaxSeek
         /\ input' = [input EXCEPT !.fp = SeekTarget(input, off, whence),
                                   !.last = "seek"]
    /\ UNCHANGED <<in_data, memlimit_mb, blendOnBlack, jobVars, val, alpha, blended, tiff>>

\* tiff_Read, lines 243-245: the length given to memcpy and returned.
ReadCount(io, size) ==
    LET bytes_to_eof == io.size - io.fp
    IN  IF size > bytes_to_eof THEN bytes_to_eof ELSE size

\* tiff_Read, lines 239-253.  memcpy reads the offsets fp .. fp + count - 1.
\* A negative count converts to a size_t near 2^64 and offsets outside
\* 0 .. size - 1 are outside the string: both are undefined behaviour, after
\* which the call may fault or return; of a copy that runs away only the
\* first MaxRead offsets are recorded.
tiff_Read ==
    /\ ~input.faulted
    /\ \E size \in 0..MaxRead :
         LET count  == ReadCount(input, size)
             copied == IF count >= 0 THEN {input.fp + k : k \in 0..(count - 1)}
                       ELSE {input.fp + k : k \in 0..(MaxRead - 1)}
             inside == count >= 0 /\ \A c \in copied : 0 <= c /\ c < input.size
         IN  \E fault \in (IF inside THEN {FALSE} ELSE {FALSE, TRUE}) :
                input' = [input EXCEPT !.last = "read",
                                       !.from = input.fp,
                                       !.asked = size,
                                       !.returned = count,
                                       !.copied = copied,
                                       !.faulted = fault,
                                       !.fp = IF fault THEN input.fp ELSE input.fp + count]
    /\ UNCHANGED <<in_data, memlimit_mb, blendOnBlack, jobVars, val, alpha, blended, tiff>>

AdapterNext == tiff_Seek \/ tiff_Read

SpecAdapter == AdapterInit /\ [][AdapterNext]_vars

(***************************************************************************)
(* Properties.                                                             *)
(***************************************************************************)
Range(f) == {f[k] : k \in DOMAIN f}

IsProcessCall(e) == e[2] = "Process"

ProbesInvoked == SelectSeq(trace, IsProcessCall)

AllNotSupported == results = <<NotSupported, NotSupported, NotSupported>>

UnknownFormatReported == "Unknown file format" \in Range(err)

\* The PNG signature 89 50 4E 47 0D 0A 1A 0A at the head of a buffer.
HasPngSignature(data) ==
    /\ Len(data) >= 8
    /\ data[1] = 137 /\ data[2] = 80 /\ data[3] = 78 /\ data[4] = 71
    /\ data[5] = 13 /\ data[6] = 10 /\ data[7] = 26 /\ data[8] = 10

HasTiffSignature(data) ==
    Len(data) >= 2 /\ (SubSeq(data, 1, 2) = <<73, 73>> \/ SubSeq(data, 1, 2) = <<77, 77>>)

\* The largest pixel count whose estimate width*height*110 / 2^20 does not
\* exceed a ceiling c >= 0: floor(c * 2^20 / 110) = floor(c * 2^19 / 55).
AdmittedPixels(c) == (c \div 55) * 524288 + ((c % 55) * 524288) \div 55

\* width * height * 110 > c * 2^20 for width, height, c >= 0, by division.
EstimateAbove(w, h, c) == h > 0 /\ w > AdmittedPixels(c) \div h

\* The admission decision as the specification states it.
Rejects(w, h, c) == c # -1 /\ (c < 100 \/ EstimateAbove(w, h, c))

GateVerdicts == {e \in Range(trace) : e[2] = "gate"}

\* C1: the probes are invoked in the order PNG, TIFF, JPEG, each at most
\* once, probe k+1 only after probe k returned NotSupported, and none after
\* a probe returned ProcessFailed or Sucess.
C1_ProbeOrder ==
    LET p == ProbesInvoked
    IN  /\ Len(p) <= 3
        /\ \A k \in 1..Len(p) : p[k][1] = <<"PNG", "TIFF", "JPEG">>[k]
        /\ Len(results) <= Len(p)
        /\ \A k \in 1..Len(results) : k < Len(p) => results[k] = NotSupported
        /\ (pc = "loop" => Len(results) = Len(p) /\ i = Len(p))
        /\ (results # <<>> /\ results[Len(results)] # NotSupported => pc # "loop")

C1_Witness ==
    pc = "done" /\ results = <<NotSupported, ProcessFailed>> /\ Len(ProbesInvoked) = 2

\* C2 (as claimed): the job ends as unknown format if and only if all three
\* probes returned NotSupported; a probe that claimed the input and failed
\* is never reported as an unknown file format.
C2_UnknownOnlyWhenNoProbeMatched ==
    pc = "done" => (UnknownFormatReported <=> AllNotSupported)

\* C3: a buffer that starts with the 8-byte PNG signature is decoded by the
\* PNG probe, which returns ProcessFailed (on a failed decode) or Sucess
\* and never NotSupported, and no other probe is invoked; any other buffer
\* makes the PNG probe return NotSupported without a decode.
C3_PngSignatureDecides ==
    trace # <<>> =>
        IF HasPngSignature(in_data)
        THEN /\ \A e \in Range(trace) : e[1] = "PNG"
             /\ \E e \in Range(trace) : e[1] = "PNG" /\ e[2] = "decode"
             /\ (results # <<>> => Len(results) = 1 /\ results[1] \in {ProcessFailed, Sucess})
             /\ (<<"PNG", "decode", "failed">> \in Range(trace) /\ results # <<>>
                    => results[1] = ProcessFailed)
             /\ pc # "loop"
        ELSE /\ results # <<>> /\ results[1] = NotSupported
             /\ \A e \in Range(trace) : ~(e[1] = "PNG" /\ e[2] # "Process")

C3_Witness ==
    /\ HasPngSignature(in_data) /\ Len(in_data) > 8
    /\ pc = "done"
    /\ <<"PNG", "decode", "failed">> \in Range(trace)
    /\ results = <<ProcessFailed>>

\* C4: with a finite ceiling, each probe rejects exactly when
\* width*height*110 / 2^20 > ceiling or ceiling < 100; equality is
\* admitted, one pixel more is rejected, and 10000 x 10000 at ceiling 100
\* is rejected.
C4_AdmissionDecision ==
    memlimit_mb # -1 =>
        /\ \A e \in GateVerdicts :
              (e[3] = "rejected") <=>
                  (memlimit_mb < 100 \/ EstimateAbove(image.xsize, image.ysize, memlimit_mb))
        /\ \A e \in GateVerdicts :
              /\ (image.xsize = 10000 /\ image.ysize = 10000 /\ memlimit_mb = 100
                      => e[3] = "rejected")
              /\ (image.xsize = 1024 /\ image.ysize = 1024 /\ memlimit_mb = 110
                      => e[3] = "admitted")
              /\ ({image.xsize, image.ysize} = {1024, 1025} /\ memlimit_mb = 110
                      => e[3] = "rejected")

C4_Witness ==
    /\ memlimit_mb = 110
    /\ image.xsize = 1024 /\ image.ysize = 1024
    /\ <<"JPEG", "gate", "admitted">> \in Range(trace)

\* C5: the encoder is invoked at most once, directly after the gate of the
\* same probe admitted the job on dimensions obtained by that probe's
\* decode (for JPEG, the header parse); a rejecting gate ends the probe with
\* ProcessFailed and no encoder call.
C5_EncoderOnlyAfterAdmission ==
    /\ Cardinality({k \in 1..Len(trace) : trace[k][2] = "encode"}) <= 1
    /\ \A k \in 1..Len(trace) :
          /\ trace[k][2] = "encode" =>
                /\ k > 2
                /\ trace[k - 1] = <<trace[k][1], "gate", "admitted">>
                /\ ~Rejects(image.xsize, image.ysize, memlimit_mb)
          /\ trace[k][2] = "gate" =>
                /\ k > 1
                /\ trace[k - 1] = <<trace[k][1], "decode", "ok">>
          /\ trace[k] = <<trace[k][1], "gate", "rejected">> =>
                /\ k = Len(trace)
                /\ results # <<>> /\ results[Len(results)] = ProcessFailed

C5_Witness ==
    /\ <<"JPEG", "gate", "rejected">> \in Range(trace)
    /\ memlimit_mb = kDefaultMemlimitMB
    /\ pc = "done"

\* C8 (as claimed): after a successful ReadPNG or ReadTIFF the rgb buffer
\* holds exactly 3 * width * height bytes, as mathematical integers, and a
\* failed decode passes nothing on to the gate or the encoder.
C8_RgbLengthExact ==
    \A f \in {"PNG", "TIFF"} :
        /\ <<f, "decode", "ok">> \in Range(trace) =>
              image.size = MulDigits(MulDigits(Digits(3), Digits(image.xsize)),
                                     Digits(image.ysize))
        /\ <<f, "decode", "failed">> \in Range(trace) =>
              \A e \in Range(trace) : e[2] \notin {"gate", "encode"}

\* C9: when the input has neither the PNG nor a TIFF signature and the JPEG
\* header parse fails, the JPEG probe returns NotSupported without a gate
\* or encoder step, all three probes ran once, and the job ends as unknown
\* format with nothing written; the 16-byte all-zero buffer is such an input.
C9_UnknownInput ==
    /\ <<"JPEG", "decode", "failed">> \in Range(trace) =>
          /\ ~HasPngSignature(in_data) /\ ~HasTiffSignature(in_data)
          /\ AllNotSupported
          /\ trace = << <<"PNG", "Process", "">>, <<"TIFF", "Process", "">>,
                        <<"JPEG", "Process", "">>, <<"JPEG", "decode", "failed">> >>
          /\ out_data = "" /\ ~written
          /\ pc \in {"after_loop", "done"}
          /\ (pc = "done" => exit_code = 2 /\ UnknownFormatReported)
    /\ (in_data = ZeroBuffer(16) /\ pc \in {"after_loop", "done"}) =>
          <<"JPEG", "decode", "failed">> \in Range(trace)

C9_Witness ==
    /\ in_data = ZeroBuffer(16)
    /\ pc = "done" /\ exit_code = 2 /\ AllNotSupported

\* C6 (as claimed): on white, Blend gives 255 at alpha 0, the sample at
\* alpha 255, and 255 - (sample*alpha + 128) / 255 in between.
C6_BlendOnWhitePiecewise ==
    (blended # -1 /\ ~blendOnBlack) =>
        blended = (IF alpha = 0 THEN 255
                   ELSE IF alpha = 255 THEN val
                   ELSE 255 - ((val * alpha + 128) \div 255))

\* C7: on black, Blend gives (sample*alpha + 128) / 255 untruncated, which
\* lies in 0..sample, is 0 at alpha 0 and the sample at alpha 255.
C7_BlendOnBlackBounds ==
    (blended # -1 /\ blendOnBlack) =>
        /\ blended = (val * alpha + 128) \div 255
        /\ 0 <= blended /\ blended <= val /\ blended <= 255
        /\ (alpha = 0 => blended = 0)
        /\ (alpha = 255 => blended = val)

C7_Witness ==
    blendOnBlack /\ val = 200 /\ alpha = 128 /\ blended = 100

\* C10 (as claimed): every converted pixel is bytes 0,1,2 of its raster
\* pixel when samples-per-pixel is not 4, and those bytes blended with byte
\* 3 of the same pixel when it is 4; each iteration reads only the pixel's
\* own four bytes, all inside the raster.
C10_TiffPixelConversion ==
    LET done == tiff.y * tiff.width + tiff.x     \* pixels converted so far
        byte(k) == tiff.raster[k + 1]
    IN  /\ \A n \in 0..(done - 1) :
              \A c \in 0..2 :
                  tiff.rgb[3 * n + c + 1] =
                      IF tiff.components # 4 THEN byte(4 * n + c)
                      ELSE Blend(blendOnBlack, byte(4 * n + c), byte(4 * n + 3))
        /\ done > 0 =>
              /\ tiff.reads \subseteq {4 * (done - 1) + k : k \in 0..3}
              /\ \A r \in tiff.reads : r < Len(tiff.raster)

\* C11 (as claimed): every tiff_Read copies only bytes at offsets within
\* 0 .. size - 1, returns a count between 0 and the length asked for, and
\* advances the cursor by exactly that count, wherever earlier seeks left
\* the cursor.
C11_ReadStaysInBuffer ==
    input.last = "read" =>
        /\ ~input.faulted
        /\ \A c \in input.copied : 0 <= c /\ c < input.size
        /\ 0 <= input.returned /\ input.returned <= input.asked
        /\ input.fp = input.from + input.returned

Count(log, event) == Cardinality({k \in 1..Len(log) : log[k] = event})

\* Every resource in the log was acquired at most once and released exactly
\* once, after its acquisition.
ReleasedOnce(log) ==
    \A r \in {"png_ptr", "info_ptr", "tif", "pixels"} :
        /\ Count(log, <<"acquire", r>>) <= 1
        /\ Count(log, <<"release", r>>) = Count(log, <<"acquire", r>>)
        /\ \A k \in 1..Len(log) :
              log[k] = <<"release", r>> =>
                  \E j \in 1..(k - 1) : log[j] = <<"acquire", r>>

\* C12: whenever ReadPNG or ReadTIFF has returned, true or false, each
\* resource it acquired (png_ptr, info_ptr; tif, pixels) has been released
\* exactly once, on the longjmp and unsupported-channel paths too.
C12_ResourcesReleasedOnReturn ==
    (pc # "aborted" /\ \E e \in Range(trace) : e[2] = "decode" /\ e[1] \in {"PNG", "TIFF"})
        => /\ ReleasedOnce(resources)
           /\ (<<"PNG", "decode", "ok">> \in Range(trace) => Len(resources) = 4)
           /\ (<<"TIFF", "decode", "ok">> \in Range(trace) => Len(resources) = 4)

\* ReadPNG returned false on the unsupported-channel path (rgb was resized).
C12_Witness ==
    /\ pc = "done"
    /\ <<"PNG", "decode", "failed">> \in Range(trace)
    /\ image.decoded
    /\ resources = << <<"acquire", "png_ptr">>, <<"acquire", "info_ptr">>,
                      <<"release", "info_ptr">>, <<"release", "png_ptr">> >>

\* C13: under the unlimited sentinel (memlimit_mb = -1) the gate of every
\* probe admits every width and height, the sentinel lying below the 100 MB
\* floor notwithstanding; under every other ceiling below 100 (0 and the
\* negative values other than -1 included) the gate of every probe rejects
\* every image.
C13_SentinelAdmitsLowCeilingRejects ==
    /\ memlimit_mb = -1 => \A e \in GateVerdicts : e[3] = "admitted"
    /\ (memlimit_mb < 100 /\ memlimit_mb # -1) =>
          \A e \in GateVerdicts : e[3] = "rejected"

\* The PNG gate ran under the sentinel on a 10000 x 10000 image, whose
\* estimate (about 10490 MB) is far above every finite ceiling.
C13_Witness ==
    /\ memlimit_mb = -1
    /\ image.xsize = 10000 /\ image.ysize = 10000
    /\ <<"PNG", "gate", "admitted">> \in Range(trace)

====
